---------------------------- MODULE Spec2Model ----------------------------
(***************************************************************************)
(* Model of the shared support library of MicrosweetQAQ/sweets:            *)
(*   - common/src/error.rs: the structured Error value, its factories,     *)
(*     consuming setters, wrap / wrap_raw / wrap_str, merge and equality;  *)
(*   - common/src/infra/event/postgres_event_repository.rs: the search     *)
(*     query of the event repository, built with a WhereBuilder.           *)
(* Option<T> is modelled as a sequence of length at most one, a HashMap    *)
(* as a function whose domain is its key set, a Box<Error> as the Error.   *)
(***************************************************************************)
EXTENDS Integers, Sequences, FiniteSets, TLC

VARIABLES
    err,        \* the Error value being built (the receiver `self`)
    pre,        \* Option: the receiver before the last wrap* / merge call
    op,         \* name of the last operation applied
    arg,        \* Option: argument of the last operation
    made,       \* the ErrorKind documented for the factory that created err
    attached,   \* Option: the last wrap / wrap_raw / wrap_str call on err
    res,        \* Option: result of the last `==` comparison
    calls,      \* the add_context calls made on err, as <<key, value>> pairs
    err1,       \* tests::merge: the three errors of the chained merge
    err2,
    err3,
    own2,       \* Option: err2 as it was before it merged err1
    own3,       \* Option: err3 as it was before it merged err2
    filter,     \* search: the optional filters topic, code, from, to
    wb,         \* search: the WhereBuilder
    step,       \* search: how far the function has run
    built,      \* Option: what build() returned, (sql, params)
    query       \* Option: the statement and the values handed to the client

errorVars == <<err, pre, op, arg, made, attached, res>>

mergeVars == <<err1, err2, err3, own2, own3>>

searchVars == <<filter, wb, step, built, query>>

vars == <<errorVars, calls, mergeVars, searchVars>>

---------------------------------------------------------------------------
(* Option and HashMap *)

None == <<>>

Some(x) == <<x>>

is_some(o) == o # <<>>

unwrap(o) == o[1]

\* HashMap::new()
HashMap_new == <<>>

\* HashMap::insert: the key's entry is created or overwritten.
insert(m, k, v) == [x \in (DOMAIN m) \cup {k} |-> IF x = k THEN v ELSE m[x]]

\* HashMap::extend: insert every entry of `other`, one after the other, in
\* the (unspecified) iteration order of `other`.
RECURSIVE extend(_, _)
extend(m, other) ==
    IF DOMAIN other = {} THEN m
    ELSE LET k == CHOOSE x \in DOMAIN other : TRUE
         IN  extend(insert(m, k, other[k]),
                    [x \in (DOMAIN other) \ {k} |-> other[x]])

---------------------------------------------------------------------------
(* error.rs: ErrorKind and Error *)

Internal == "Internal"

Application == "Application"

ErrorKind == {Internal, Application}

Error(kind, path, code, status, message, context, cause) ==
    [kind |-> kind, path |-> path, code |-> code, status |-> status,
     message |-> message, context |-> context, cause |-> cause]

new(path, code) ==
    Error(Application, path, code, None, None, HashMap_new, None)

internal(path, code) ==
    Error(Internal, path, code, None, None, HashMap_new, None)

set_path(self, path) == [self EXCEPT !.path = path]

set_code(self, code) == [self EXCEPT !.code = code]

set_status(self, status) == [self EXCEPT !.status = Some(status)]

set_message(self, message) == [self EXCEPT !.message = Some(message)]

not_found(entity) == set_status(new(entity, "not_found"), 404)

unauthorized == set_status(new("authorization", "unauthorized"), 401)

forbidden(path) == set_status(new(path, "forbidden"), 403)

bad_format(path) == set_status(new(path, "bad_format"), 400)

invalid(path) == set_status(new(path, "invalid"), 422)

conflict(path) == set_status(new(path, "conflict"), 409)

\* Variant: not_owner answers 403, as forbidden does.
not_owner_403(entity) == set_status(new(entity, "not_owner"), 403)

not_owner(entity) == set_status(new(entity, "not_owner"), 401)

\* Variant: an existing key keeps its value (entry().or_insert()).
add_context_keep_first(self, k, v) ==
    IF k \in DOMAIN self.context THEN self
    ELSE [self EXCEPT !.context = insert(self.context, k, v)]

add_context(self, k, v) == [self EXCEPT !.context = insert(self.context, k, v)]

\* Variant: a cause already attached is kept.
wrap_keep_first(self, e) ==
    IF is_some(self.cause) THEN self ELSE [self EXCEPT !.cause = Some(e)]

wrap(self, e) == [self EXCEPT !.cause = Some(e)]

\* Display of a foreign error value: the test's StringError writes its
\* `error` field.
display(e) == e.error

\* ToString of the values handed to wrap_str: a string renders as itself,
\* an integer as its decimal digits.
Digit == <<"0", "1", "2", "3", "4", "5", "6", "7", "8", "9">>

RECURSIVE decimal(_)
decimal(n) ==
    IF n < 10 THEN Digit[n + 1]
    ELSE decimal(n \div 10) \o Digit[(n % 10) + 1]

to_string(s) == IF s.type = "str" THEN s.val ELSE decimal(s.val)

\* Variant: the earlier cause is chained below the synthesized one.
wrap_raw_chained(self, e) ==
    LET raw == Error(Internal, "", "raw", None, Some(display(e)),
                     HashMap_new, self.cause)
    IN  [self EXCEPT !.cause = Some(raw)]

wrap_raw(self, e) ==
    LET raw == Error(Internal, "", "raw", None, Some(display(e)),
                     HashMap_new, None)
    IN  [self EXCEPT !.cause = Some(raw)]

wrap_str(self, s) ==
    LET raw == Error(Internal, "", "raw", None, Some(to_string(s)),
                     HashMap_new, None)
    IN  [self EXCEPT !.cause = Some(raw)]

\* Variant: the breadcrumb is written after other's entries.
merge_breadcrumb_last(self, e) ==
    LET copied == [self EXCEPT !.context = extend(self.context, e.context)]
    IN  add_context(copied, e.path, e.code)

\* Variant: merging an Internal error makes the receiver Internal.
merge_escalate(self, e) ==
    LET marked == add_context(self, e.path, e.code)
    IN  [marked EXCEPT !.context = extend(marked.context, e.context),
                       !.kind = IF e.kind = Internal THEN Internal ELSE @]

merge(self, e) ==
    LET marked == add_context(self, e.path, e.code)
    IN  [marked EXCEPT !.context = extend(marked.context, e.context)]

\* Variant: equality also reads the kind.
eq_with_kind(a, b) ==
    a.kind = b.kind /\ a.code = b.code /\ a.path = b.path /\ a.status = b.status

\* impl PartialEq for Error
eq(a, b) == a.code = b.code /\ a.path = b.path /\ a.status = b.status

\* cause(): Option<&Error>
cause(self) == IF is_some(self.cause) THEN Some(unwrap(self.cause)) ELSE None

\* The chain of causes below an Error, nearest first.
RECURSIVE CauseChain(_)
CauseChain(e) ==
    IF is_some(cause(e))
    THEN <<unwrap(cause(e))>> \o CauseChain(unwrap(cause(e)))
    ELSE <<>>

---------------------------------------------------------------------------
(* Inputs of the Error operations *)

Paths == {"my.path", "k1"}

Codes == {"code"}

Statuses == {404}

Messages == {"message"}

Keys == {"k1"}

Values == {"v1"}

\* Foreign error values given to wrap_raw (tests::StringError).
RawErrors == {[error |-> "raw_err"]}

\* Values given to wrap_str.
Strs == {[type |-> "str", val |-> "boom"], [type |-> "u16", val |-> 503]}

\* Error values handed in as the argument of wrap, merge and ==.
ArgErrors ==
    { new("my.path", "code"),
      set_status(internal("my.path", "code"), 404),
      add_context(internal("k1", "code"), "k1", "v2"),
      wrap_raw(set_message(new("k1", "code"), "message"), [error |-> "raw_err"]) }

---------------------------------------------------------------------------
(* The life of one Error: a factory creates it, consuming setters return  *)
(* the updated value.                                                     *)

\* The variables of the other specifications, which this one leaves alone.
MergeIdle == err1 = None /\ err2 = None /\ err3 = None /\ own2 = None /\ own3 = None

SearchIdle == filter = None /\ wb = None /\ step = "idle" /\ built = None /\ query = None

ErrorIdle ==
    /\ pre = None /\ op = "idle" /\ arg = None /\ made = Application
    /\ attached = None /\ res = None

\* The kind each factory is documented to give.
FactoryKind(name) == IF name = "internal" THEN Internal ELSE Application

\* A factory call: there is no receiver.
Create(name, a, e) ==
    /\ err' = e
    /\ made' = FactoryKind(name)
    /\ op' = name
    /\ arg' = a
    /\ pre' = None
    /\ attached' = None
    /\ res' = None
    /\ UNCHANGED <<calls, mergeVars, searchVars>>

\* A setter call on the receiver.
Update(name, a, e) ==
    /\ err' = e
    /\ op' = name
    /\ arg' = a
    /\ pre' = IF name \in {"wrap", "wrap_raw", "wrap_str", "merge"}
              THEN Some(err) ELSE None
    /\ attached' = IF name \in {"wrap", "wrap_raw", "wrap_str"}
                   THEN Some([by |-> name, val |-> unwrap(a)]) ELSE attached
    /\ res' = None
    /\ UNCHANGED <<made, calls, mergeVars, searchVars>>

New == \E p \in Paths, c \in Codes : Create("new", Some(p), new(p, c))

NewInternal == \E p \in Paths, c \in Codes : Create("internal", Some(p), internal(p, c))

NotFound == \E p \in Paths : Create("not_found", Some(p), not_found(p))

Unauthorized == Create("unauthorized", None, unauthorized)

Forbidden == \E p \in Paths : Create("forbidden", Some(p), forbidden(p))

BadFormat == \E p \in Paths : Create("bad_format", Some(p), bad_format(p))

Invalid == \E p \in Paths : Create("invalid", Some(p), invalid(p))

Conflict == \E p \in Paths : Create("conflict", Some(p), conflict(p))

NotOwner == \E p \in Paths : Create("not_owner", Some(p), not_owner(p))

SetPath == \E p \in Paths : Update("set_path", Some(p), set_path(err, p))

SetCode == \E c \in Codes : Update("set_code", Some(c), set_code(err, c))

SetStatus == \E s \in Statuses : Update("set_status", Some(s), set_status(err, s))

SetMessage == \E m \in Messages : Update("set_message", Some(m), set_message(err, m))

AddContext ==
    \E k \in Keys, v \in Values :
        Update("add_context", Some(<<k, v>>), add_context(err, k, v))

Wrap == \E e \in ArgErrors : Update("wrap", Some(e), wrap(err, e))

WrapRaw == \E e \in RawErrors : Update("wrap_raw", Some(e), wrap_raw(err, e))

WrapStr == \E s \in Strs : Update("wrap_str", Some(s), wrap_str(err, s))

Merge == \E e \in ArgErrors : Update("merge", Some(e), merge(err, e))

\* self == other: reads both values, changes neither.
Compare ==
    \E e \in ArgErrors :
        /\ res' = Some(eq(err, e))
        /\ op' = "eq"
        /\ arg' = Some(e)
        /\ pre' = None
        /\ UNCHANGED <<err, made, attached, calls, mergeVars, searchVars>>

Init ==
    /\ err \in {new(p, c) : p \in Paths, c \in Codes}
    /\ made = Application
    /\ op = "new"
    /\ arg = Some(err.path)
    /\ pre = None
    /\ attached = None
    /\ res = None
    /\ calls = <<>>
    /\ MergeIdle
    /\ SearchIdle

Next ==
    \/ New
    \/ NewInternal
    \/ NotFound
    \/ Unauthorized
    \/ Forbidden
    \/ BadFormat
    \/ Invalid
    \/ Conflict
    \/ NotOwner
    \/ SetPath
    \/ SetCode
    \/ SetStatus
    \/ SetMessage
    \/ AddContext
    \/ Wrap
    \/ WrapRaw
    \/ WrapStr
    \/ Merge
    \/ Compare

Spec == Init /\ [][Next]_vars

---------------------------------------------------------------------------
(* Properties of the Error lifecycle, checked under Spec *)

\* The three fields equality is documented to read.
SameCodePathStatus(a, b) ==
    /\ a.code = b.code
    /\ a.path = b.path
    /\ a.status = b.status

\* C1: a == b holds exactly when a and b have the same code, the same path
\* and the same status (None and Some(s) differ); kind, message, context and
\* cause play no part in it.
C1_EqualityByCodePathStatus ==
    op = "eq" =>
        LET a == err
            b == unwrap(arg)
        IN  /\ SameCodePathStatus(a, b) => unwrap(res) = TRUE
            /\ a.code # b.code => unwrap(res) = FALSE
            /\ a.path # b.path => unwrap(res) = FALSE
            /\ a.status # b.status => unwrap(res) = FALSE

\* Two errors that compare equal although they differ in kind, message,
\* context and cause.
C1_Witness ==
    /\ op = "eq"
    /\ unwrap(res) = TRUE
    /\ err.kind # unwrap(arg).kind
    /\ err.message # unwrap(arg).message
    /\ err.context # unwrap(arg).context
    /\ err.cause # unwrap(arg).cause

\* The cause wrap_raw and wrap_str synthesize for the rendering `text`.
RawCause(text) ==
    [kind |-> Internal, path |-> "", code |-> "raw", status |-> None,
     message |-> Some(text), context |-> <<>>, cause |-> None]

\* C5: after wrap_raw(e) or wrap_str(e) the cause is present and is the
\* minimal Internal error with code "raw", empty path, no status, the
\* rendering of e as message, an empty context and no cause of its own,
\* whatever cause the receiver had before.
C5_RawCauseIsMinimal ==
    /\ op = "wrap_raw" =>
           /\ is_some(cause(err))
           /\ unwrap(cause(err)) = RawCause(unwrap(arg).error)
    /\ op = "wrap_str" =>
           /\ is_some(cause(err))
           /\ unwrap(cause(err)) =
                  RawCause(IF unwrap(arg).type = "u16"
                           THEN ToString(unwrap(arg).val)
                           ELSE unwrap(arg).val)

\* wrap_raw on a receiver whose earlier cause had a cause of its own.
C5_Witness ==
    /\ op = "wrap_raw"
    /\ Len(CauseChain(unwrap(pre))) = 2
    /\ Len(CauseChain(err)) = 1
    /\ unwrap(cause(err)).message = Some("raw_err")

\* C6: after wrap(inner) the cause is present, equal to inner, with inner's
\* own chain kept below it; and whatever wrap / wrap_raw / wrap_str calls
\* came before, the chain below the Error is the last attached cause
\* followed by that cause's own chain, and nothing else.
C6_CauseIsLastWrapped ==
    /\ op = "wrap" =>
           /\ is_some(cause(err))
           /\ eq(unwrap(cause(err)), unwrap(arg))
           /\ CauseChain(err) = <<unwrap(arg)>> \o CauseChain(unwrap(arg))
    /\ ~is_some(attached) => ~is_some(cause(err))
    /\ is_some(attached) =>
           LET last == unwrap(attached)
           IN  /\ is_some(cause(err))
               /\ last.by = "wrap" =>
                      /\ unwrap(cause(err)) = last.val
                      /\ Len(CauseChain(err)) = 1 + Len(CauseChain(last.val))
               /\ last.by = "wrap_raw" =>
                      /\ unwrap(cause(err)).message = Some(last.val.error)
                      /\ Len(CauseChain(err)) = 1
               /\ last.by = "wrap_str" =>
                      /\ unwrap(cause(err)).code = "raw"
                      /\ Len(CauseChain(err)) = 1

\* wrap(inner), inner having a cause of its own, on a receiver that already
\* had another cause.
C6_Witness ==
    /\ op = "wrap"
    /\ is_some(unwrap(pre).cause)
    /\ unwrap(pre).cause # err.cause
    /\ Len(CauseChain(unwrap(arg))) = 1
    /\ Len(CauseChain(err)) = 2

\* The (code, status) pair documented for each convenience factory.
Documented ==
    [not_found    |-> [code |-> "not_found",    status |-> 404],
     unauthorized |-> [code |-> "unauthorized", status |-> 401],
     forbidden    |-> [code |-> "forbidden",    status |-> 403],
     bad_format   |-> [code |-> "bad_format",   status |-> 400],
     invalid      |-> [code |-> "invalid",      status |-> 422],
     conflict     |-> [code |-> "conflict",     status |-> 409],
     not_owner    |-> [code |-> "not_owner",    status |-> 401]]

\* C9: a convenience factory returns an Application error with the path it
\* was given ("authorization" for unauthorized), the documented code and
\* status, no message, an empty context and no cause.
C9_ConvenienceFactories ==
    op \in DOMAIN Documented =>
        err = [kind    |-> Application,
               path    |-> IF op = "unauthorized" THEN "authorization"
                           ELSE unwrap(arg),
               code    |-> Documented[op].code,
               status  |-> Some(Documented[op].status),
               message |-> None,
               context |-> <<>>,
               cause   |-> None]

\* not_owner(entity) has just returned.
C9_Witness ==
    /\ op = "not_owner"
    /\ err.path = "k1"
    /\ err.code = "not_owner"
    /\ err.status = Some(401)

\* C10: the kind is the one the factory gave, whatever setters, wrap* and
\* merge calls followed; and merge leaves path, code, status, message and
\* cause of the receiver as they were.
C10_KindFixedByFactory ==
    /\ err.kind = made
    /\ op = "merge" =>
           /\ err.kind = unwrap(pre).kind
           /\ err.path = unwrap(pre).path
           /\ err.code = unwrap(pre).code
           /\ err.status = unwrap(pre).status
           /\ err.message = unwrap(pre).message
           /\ err.cause = unwrap(pre).cause

\* An Application error that has a cause has just merged an Internal error
\* with another status.
C10_Witness ==
    /\ op = "merge"
    /\ made = Application
    /\ unwrap(arg).kind = Internal
    /\ unwrap(arg).status # err.status
    /\ is_some(err.cause)
    /\ err.context # unwrap(pre).context

---------------------------------------------------------------------------
(* tests::basic, for any keys and values: an Error from a factory, then   *)
(* set_message, set_status and add_context calls, the latter recorded.    *)

MaxCalls == 3

ContextKeys == {"k1", "k2"}

ContextValues == {"v1", "v2", "v3"}

ContextInit ==
    /\ err \in {new(p, c) : p \in Paths, c \in Codes}
             \cup {internal(p, c) : p \in Paths, c \in Codes}
    /\ calls = <<>>
    /\ ErrorIdle
    /\ MergeIdle
    /\ SearchIdle

BasicSetMessage ==
    /\ \E m \in Messages : err' = set_message(err, m)
    /\ UNCHANGED <<pre, op, arg, made, attached, res, calls, mergeVars, searchVars>>

BasicSetStatus ==
    /\ \E s \in Statuses : err' = set_status(err, s)
    /\ UNCHANGED <<pre, op, arg, made, attached, res, calls, mergeVars, searchVars>>

BasicAddContext ==
    /\ Len(calls) < MaxCalls
    /\ \E k \in ContextKeys, v \in ContextValues :
           /\ err' = add_context(err, k, v)
           /\ calls' = Append(calls, <<k, v>>)
    /\ UNCHANGED <<pre, op, arg, made, attached, res, mergeVars, searchVars>>

ContextNext ==
    \/ BasicSetMessage
    \/ BasicSetStatus
    \/ BasicAddContext

SpecContext == ContextInit /\ [][ContextNext]_vars

\* The keys the recorded add_context calls used.
KeysUsed == {calls[i][1] : i \in 1..Len(calls)}

\* The value of the last recorded call with key k.
LastWritten(k) ==
    LET last == CHOOSE i \in 1..Len(calls) :
                    /\ calls[i][1] = k
                    /\ \A j \in (i + 1)..Len(calls) : calls[j][1] # k
    IN  calls[last][2]

\* C4: the context has exactly one entry per distinct key used by the
\* add_context calls, and each key holds the value of the last call with
\* that key.
C4_ContextLastWriteWins ==
    /\ DOMAIN err.context = KeysUsed
    /\ Cardinality(DOMAIN err.context) = Cardinality(KeysUsed)
    /\ \A k \in KeysUsed : err.context[k] = LastWritten(k)

\* new, set_status, add_context(k1, v1), add_context(k2, v2),
\* add_context(k2, v3): two entries, k2 holding v3.
C4_Witness ==
    /\ err.kind = Application
    /\ err.status = Some(404)
    /\ calls = << <<"k1", "v1">>, <<"k2", "v2">>, <<"k2", "v3">> >>
    /\ Cardinality(DOMAIN err.context) = 2
    /\ err.context["k1"] = "v1"
    /\ err.context["k2"] = "v3"

---------------------------------------------------------------------------
(* tests::merge, for any leaf entries: err1 and err2 are Internal, err3   *)
(* is Application; each gets add_context calls; err2 merges err1, then    *)
(* err3 merges err2.  A merged-in error has been moved and is not touched *)
(* again.                                                                 *)

MaxEntries == 2

LeafKeys == {"e1-key1", "e1-key2", "e2-key", "e3-key"}

\* The paths tried for err1 and err2: the test's, and ones that are also
\* used as leaf keys.
Err1Paths == {"err1", "e1-key1", "e2-key"}

Err2Paths == {"err2", "e3-key"}

Err1Values == {"value1", "value2"}

Err2Values == {"value"}

Err3Values == {"value"}

MergeInit ==
    /\ err1 \in {internal(p, "err1") : p \in Err1Paths}
    /\ err2 \in {internal(p, "err2") : p \in Err2Paths}
    /\ err3 = new("err3", "err3")
    /\ own2 = None
    /\ own3 = None
    /\ err = None
    /\ calls = <<>>
    /\ ErrorIdle
    /\ SearchIdle

\* Room for the entry: the key is already there, or the context is not full.
HasRoom(e, k) ==
    k \in DOMAIN e.context \/ Cardinality(DOMAIN e.context) < MaxEntries

AddContext1 ==
    /\ own2 = None
    /\ \E k \in LeafKeys, v \in Err1Values :
           /\ HasRoom(err1, k)
           /\ err1' = add_context(err1, k, v)
    /\ UNCHANGED <<err2, err3, own2, own3, errorVars, calls, searchVars>>

AddContext2 ==
    /\ own2 = None
    /\ \E k \in LeafKeys, v \in Err2Values :
           /\ HasRoom(err2, k)
           /\ err2' = add_context(err2, k, v)
    /\ UNCHANGED <<err1, err3, own2, own3, errorVars, calls, searchVars>>

Merge2 ==
    /\ own2 = None
    /\ err2' = merge(err2, err1)
    /\ own2' = Some(err2)
    /\ UNCHANGED <<err1, err3, own3, errorVars, calls, searchVars>>

AddContext3 ==
    /\ own3 = None
    /\ \E k \in LeafKeys, v \in Err3Values :
           /\ HasRoom(err3, k)
           /\ err3' = add_context(err3, k, v)
    /\ UNCHANGED <<err1, err2, own2, own3, errorVars, calls, searchVars>>

Merge3 ==
    /\ own2 # None
    /\ own3 = None
    /\ err3' = merge(err3, err2)
    /\ own3' = Some(err3)
    /\ UNCHANGED <<err1, err2, own2, errorVars, calls, searchVars>>

MergeNext ==
    \/ AddContext1
    \/ AddContext2
    \/ Merge2
    \/ AddContext3
    \/ Merge3

SpecMerge == MergeInit /\ [][MergeNext]_vars

\* The context merge is documented to give: self's entries, overwritten by
\* the breadcrumb other.path -> other.code, overwritten by other's entries.
MergedContext(self, other) ==
    [k \in (DOMAIN self.context) \cup {other.path} \cup (DOMAIN other.context) |->
        IF k \in DOMAIN other.context THEN other.context[k]
        ELSE IF k = other.path THEN other.code
        ELSE self.context[k]]

\* The shape of the test: err1 has 2 entries, err2 had 1, err3 had 2 of
\* which one key is shared with err1; the four leaf keys are distinct and
\* none of them is the path of err1 or err2.
TestShape ==
    /\ own2 # None
    /\ own3 # None
    /\ LET k1 == DOMAIN err1.context
           k2 == DOMAIN unwrap(own2).context
           k3 == DOMAIN unwrap(own3).context
       IN  /\ Cardinality(k1) = 2
           /\ Cardinality(k2) = 1
           /\ Cardinality(k3) = 2
           /\ Cardinality(k1 \cap k3) = 1
           /\ Cardinality(k1 \cup k2 \cup k3) = 4
           /\ {err1.path, err2.path} \cap (k1 \cup k2 \cup k3) = {}
           /\ err1.path # err2.path

\* C3: merge gives the receiver the context MergedContext describes; and
\* chained as in the test, err3 ends with exactly 6 entries: the two
\* breadcrumbs and the four leaf keys, the shared key holding err1's value.
C3_MergeContext ==
    /\ own2 # None => err2.context = MergedContext(unwrap(own2), err1)
    /\ own3 # None => err3.context = MergedContext(unwrap(own3), err2)
    /\ TestShape =>
           /\ Cardinality(DOMAIN err3.context) = 6
           /\ err3.context[err1.path] = err1.code
           /\ err3.context[err2.path] = err2.code
           /\ \A k \in DOMAIN err1.context : err3.context[k] = err1.context[k]
           /\ \A k \in DOMAIN unwrap(own2).context :
                  err3.context[k] = unwrap(own2).context[k]
           /\ \A k \in (DOMAIN unwrap(own3).context) \ (DOMAIN err1.context) :
                  err3.context[k] = unwrap(own3).context[k]

\* The end of tests::merge, with its keys and values.
C3_Witness ==
    /\ own3 # None
    /\ unwrap(own3).context = [k \in {"e1-key1", "e3-key"} |-> "value"]
    /\ err3.context =
           [k \in {"err1", "err2", "e1-key1", "e1-key2", "e2-key", "e3-key"} |->
               CASE k = "err1" -> "err1"
                 [] k = "err2" -> "err2"
                 [] k = "e1-key1" -> "value1"
                 [] k = "e1-key2" -> "value2"
                 [] k = "e2-key" -> "value"
                 [] k = "e3-key" -> "value"]

---------------------------------------------------------------------------
(* sql::where_builder::WhereBuilder.  A fragment template is the sequence *)
(* of its pieces, the placeholder marker "$$" being one of them.          *)

Marker == "$$"

WhereBuilder_new == [fragments |-> <<>>, params |-> <<>>]

\* The fragment and its value are kept only when the condition holds.
add_param_opt(self, template, value, condition) ==
    IF condition
    THEN [fragments |-> Append(self.fragments, template),
          params |-> Append(self.params, value)]
    ELSE self

\* The pieces of a template put together, the marker replaced by `token`.
RECURSIVE rewrite(_, _)
rewrite(template, token) ==
    IF template = <<>> THEN ""
    ELSE (IF Head(template) = Marker THEN token ELSE Head(template))
         \o rewrite(Tail(template), token)

\* The fragments from the i-th on, the i-th numbered i, joined by " AND ".
RECURSIVE join_from(_, _)
join_from(fragments, i) ==
    IF i > Len(fragments) THEN ""
    ELSE rewrite(fragments[i], "$" \o decimal(i))
         \o (IF i < Len(fragments) THEN " AND " ELSE "")
         \o join_from(fragments, i + 1)

build(self) == [sql |-> join_from(self.fragments, 1), params |-> self.params]

---------------------------------------------------------------------------
(* PostgresEventRepository::search *)

Topics == {"user", "order"}

EventCodes == {"created"}

FromTimes == {"2021-01-01T00:00:00Z"}

ToTimes == {"2021-12-31T00:00:00Z"}

Option(S) == {None} \cup {Some(x) : x \in S}

\* The four add_param_opt calls of search, in order.
SearchCalls == <<"topic", "code", "from", "to">>

\* Variant: the code filter is kept when the topic is present.
search_call_code_if_topic(self, f, i) ==
    CASE i = 1 -> add_param_opt(self, <<"topic = ", "$$">>, f.topic, is_some(f.topic))
      [] i = 2 -> add_param_opt(self, <<"code = ", "$$">>, f.code, is_some(f.topic))
      [] i = 3 -> add_param_opt(self, <<"timestamp >= ", "$$">>, f.from, is_some(f.from))
      [] i = 4 -> add_param_opt(self, <<"timestamp <= ", "$$">>, f.to, is_some(f.to))

\* Variant: the upper bound binds the value of the lower bound.
search_call_to_binds_from(self, f, i) ==
    CASE i = 1 -> add_param_opt(self, <<"topic = ", "$$">>, f.topic, is_some(f.topic))
      [] i = 2 -> add_param_opt(self, <<"code = ", "$$">>, f.code, is_some(f.code))
      [] i = 3 -> add_param_opt(self, <<"timestamp >= ", "$$">>, f.from, is_some(f.from))
      [] i = 4 -> add_param_opt(self, <<"timestamp <= ", "$$">>, f.from, is_some(f.to))

\* Variant: the topic filter is always kept.
search_call_topic_always(self, f, i) ==
    CASE i = 1 -> add_param_opt(self, <<"topic = ", "$$">>, f.topic, TRUE)
      [] i = 2 -> add_param_opt(self, <<"code = ", "$$">>, f.code, is_some(f.code))
      [] i = 3 -> add_param_opt(self, <<"timestamp >= ", "$$">>, f.from, is_some(f.from))
      [] i = 4 -> add_param_opt(self, <<"timestamp <= ", "$$">>, f.to, is_some(f.to))

\* The i-th add_param_opt call of search on the builder `self`.
search_call(self, f, i) ==
    CASE i = 1 -> add_param_opt(self, <<"topic = ", "$$">>, f.topic, is_some(f.topic))
      [] i = 2 -> add_param_opt(self, <<"code = ", "$$">>, f.code, is_some(f.code))
      [] i = 3 -> add_param_opt(self, <<"timestamp >= ", "$$">>, f.from, is_some(f.from))
      [] i = 4 -> add_param_opt(self, <<"timestamp <= ", "$$">>, f.to, is_some(f.to))

\* format!("SELECT * FROM events {} ORDER BY timestamp ASC", sql), with the
\* line breaks and indentation of the literal.
statement(sql) ==
    "SELECT * FROM events\n                    " \o sql
        \o "\n                    ORDER BY timestamp ASC"

\* The number of add_param_opt calls made when search is at `step`.
CallsMade ==
    CASE step = "topic" -> 0
      [] step = "code" -> 1
      [] step = "from" -> 2
      [] step = "to" -> 3
      [] OTHER -> 4

SearchInit ==
    /\ filter \in [topic : Option(Topics), code : Option(EventCodes),
                   from : Option(FromTimes), to : Option(ToTimes)]
    /\ wb = WhereBuilder_new
    /\ step = "topic"
    /\ built = None
    /\ query = None
    /\ err = None
    /\ calls = <<>>
    /\ ErrorIdle
    /\ MergeIdle

\* One .add_param_opt(...) of the chain.
AddParamOpt ==
    /\ step \in {"topic", "code", "from", "to"}
    /\ wb' = search_call(wb, filter, CallsMade + 1)
    /\ step' = IF CallsMade < 3 THEN SearchCalls[CallsMade + 2] ELSE "build"
    /\ UNCHANGED <<filter, built, query, errorVars, calls, mergeVars>>

\* .build()
Build ==
    /\ step = "build"
    /\ built' = Some(build(wb))
    /\ step' = "query"
    /\ UNCHANGED <<filter, wb, query, errorVars, calls, mergeVars>>

\* self.client.query(&format!(...), &params)
Query ==
    /\ step = "query"
    /\ query' = Some([statement |-> statement(unwrap(built).sql),
                      params |-> unwrap(built).params])
    /\ step' = "await"
    /\ UNCHANGED <<filter, wb, built, errorVars, calls, mergeVars>>

\* The query succeeded: the rows become events.
QueryOk ==
    /\ step = "await"
    /\ step' = "ok"
    /\ UNCHANGED <<filter, wb, built, query, errorVars, calls, mergeVars>>

\* The query failed: map_err(|err| Error::not_found("event").wrap_raw(err))
QueryFailed ==
    /\ step = "await"
    /\ \E e \in RawErrors : err' = wrap_raw(not_found("event"), e)
    /\ step' = "failed"
    /\ UNCHANGED <<filter, wb, built, query, pre, op, arg, made, attached, res,
                   calls, mergeVars>>

SearchNext ==
    \/ AddParamOpt
    \/ Build
    \/ Query
    \/ QueryOk
    \/ QueryFailed

SpecSearch == SearchInit /\ [][SearchNext]_vars

---------------------------------------------------------------------------
(* Properties of search and its WhereBuilder, checked under SpecSearch *)

\* Whether the i-th call of search has a condition that holds.
Present(i) == is_some(filter[SearchCalls[i]])

\* The calls among the first n whose condition holds, in call order.
Accepted(n) == SelectSeq([i \in 1..n |-> i], Present)

\* The text before the placeholder in the template of each call.
TemplateText == <<"topic = ", "code = ", "timestamp >= ", "timestamp <= ">>

\* The k-th and later accepted templates, the k-th carrying token k.
RECURSIVE ClauseFrom(_, _)
ClauseFrom(acc, k) ==
    IF k > Len(acc) THEN ""
    ELSE TemplateText[acc[k]] \o "$" \o ToString(k)
         \o (IF k < Len(acc) THEN " AND " ELSE "")
         \o ClauseFrom(acc, k + 1)

\* C2: build() returns the accepted templates in call order joined by
\* " AND ", the k-th accepted one carrying token k, and the accepted
\* values in the same order.
C2_BuildNumbersAcceptedFragments ==
    built # None =>
        LET acc == Accepted(4)
        IN  /\ unwrap(built).sql = ClauseFrom(acc, 1)
            /\ unwrap(built).params =
                   [k \in 1..Len(acc) |-> filter[SearchCalls[acc[k]]]]

\* Conditions (true, false, true, false): tokens 1 and 2, two values.
C2_Witness ==
    /\ built # None
    /\ filter.topic = Some("user")
    /\ filter.code = None
    /\ filter.to = None
    /\ unwrap(built).sql = "topic = $1 AND timestamp >= $2"
    /\ unwrap(built).params = <<Some("user"), Some("2021-01-01T00:00:00Z")>>

NoFilter == \A i \in 1..4 : ~Present(i)

\* C7: with no filter present build() returns the empty string and no
\* values, and search splices the empty clause into its statement and binds
\* nothing.
C7_EmptyClause ==
    NoFilter =>
        /\ built # None =>
               /\ unwrap(built).sql = ""
               /\ unwrap(built).params = <<>>
        /\ query # None =>
               /\ unwrap(query).statement =
                      "SELECT * FROM events\n                    "
                          \o "\n                    ORDER BY timestamp ASC"
               /\ unwrap(query).params = <<>>

\* search(None, None, None, None) has sent its query.
C7_Witness ==
    /\ NoFilter
    /\ step = "ok"
    /\ unwrap(built).sql = ""
    /\ unwrap(query).params = <<>>

\* C8: after any number of calls the builder holds as many fragments as
\* values, one of each per call whose condition held, in call order.
C8_FragmentsMatchValues ==
    LET acc == Accepted(CallsMade)
    IN  /\ Len(wb.fragments) = Len(wb.params)
        /\ Len(wb.fragments) = Cardinality({i \in 1..CallsMade : Present(i)})
        /\ wb.fragments = [k \in 1..Len(acc) |-> <<TemplateText[acc[k]], Marker>>]
        /\ wb.params = [k \in 1..Len(acc) |-> filter[SearchCalls[acc[k]]]]

\* Two calls made, the first skipped, the second accepted.
C8_Witness ==
    /\ step = "from"
    /\ filter.topic = None
    /\ filter.code # None
    /\ Len(wb.fragments) = 1
    /\ wb.params = <<filter.code>>

=============================================================================
